---- MODULE Spec2Model ----
(***************************************************************************)
(* Job orchestrator: webhook ingest (handle_telegram_update), the RabbitMQ *)
(* wrapper (MessageQueue) and the worker (process_job / handle_message),   *)
(* over the job / job_attempt / telegram_update tables.                    *)
(*                                                                         *)
(* Every database call of the worker is its own committed transaction      *)
(* (get_db_session), so each is one step; the ingest handler works in one  *)
(* request session whose rows stay invisible until db.commit().            *)
(***************************************************************************)
EXTENDS Integers, Sequences, FiniteSets, TLC

\* ------------------------------------------------------------------ bounds
NumHandlers == 2       \* concurrent webhook request handlers
NumWorkers == 2        \* concurrent queue consumers
MaxDeliveries == 2     \* webhook requests received in one behaviour
MaxRedeliver == 1      \* connection drops / worker crashes / shutdowns in one behaviour
MaxPublishFail == 1    \* publish_job calls that raise in one behaviour
MaxDataSources == 2    \* dataSources of a template package
MaxActions == 2        \* actions of a template package
MaxSections == 1       \* sections of a template package
MaxButtons == 1        \* buttons of a section

\* ------------------------------------------------------- program constants
max_retries == 2
retry_base_delay == 5
retry_max_delay == 300
\* the largest max_retries the settings accept
max_retries_limit == 10

Handlers == 1..NumHandlers
Workers == 1..NumWorkers
\* the external update id the transport (re)delivers
UpdateIds == {1001}
JobIds == 1..MaxDeliveries
\* attempt numbers a message can carry; one beyond max_retries is representable
Attempts == 1..(max_retries + 1)
Msgs == JobIds \X Attempts

Terminal == {"completed", "failed"}

VARIABLES
    delivered,      \* number of webhook requests received so far
    events,         \* committed telegram_update rows
    jobs,           \* committed job rows, by job id ("none": no row)
    attempts,       \* committed job_attempt rows, by attempt id
    itxn,           \* per handler: rows written but not yet committed
    ipc,            \* per handler: position in handle_telegram_update
    ireq,           \* per handler: number of the request being handled
    iupd,           \* per handler: update_id of the request
    iresp,          \* per handler: the WebhookDecision produced, with the HTTP status of the reply
    mainq,          \* main queue: message -> number of copies ready
    delayq,         \* delay queues: <<message, delay_ms>> -> copies
    dlq,            \* dead-letter queue: message -> copies
    wpc,            \* per worker: position in consume / handle_message
    wmsg,           \* per worker: the message being handled
    wlive,          \* per worker: its delivery is still unacknowledged on a live channel
    watt,           \* per worker: attempt_id of the episode
    wres,           \* per worker: the GenerationResult
    wbundle,        \* per worker: bundle_id created in the episode
    wdone,          \* per worker: return value of process_job
    bundles,        \* bundle directories on disk
    notified,       \* job id -> number of completion notifications sent
    notices,        \* the terminal notices sent to the chats, each with the job it is about
    redelivered,    \* connection drops / crashes / shutdowns so far
    brokerBlocked,  \* the broker holds publishers back (resource alarm, no confirm)
    vpkg,           \* the package a call of TemplateValidator.validate is given
    vres,           \* the ValidationResult that call returned (a set: empty before the return)
    pubFails,       \* publish_job failures so far
    aiCalls,        \* message -> number of model invocations
    ingestPubs,     \* update_id -> number of messages ingest published
    termSeen        \* job id -> terminal statuses the row has ever held

dbVars == <<events, jobs, attempts>>
ingestVars == <<delivered, itxn, ipc, ireq, iupd, iresp, pubFails>>
queueVars == <<mainq, delayq, dlq>>
workerVars == <<wpc, wmsg, wlive, watt, wres, wbundle, wdone, redelivered>>
outVars == <<bundles, notified, notices>>
histVars == <<aiCalls, ingestPubs, termSeen>>
validatorVars == <<vpkg, vres>>
vars == <<dbVars, ingestVars, queueVars, workerVars, outVars, histVars, validatorVars,
          brokerBlocked>>

\* --------------------------------------------------------------- rows
NoJob == [telegram_update_id |-> 0, status |-> "none", attempt_count |-> 0,
          bundle_id |-> 0, preview_url |-> <<>>, error_message |-> "none",
          validation_errors |-> {}]

\* Job(...) as create_job builds it: status queued, attempt_count default 0
NewJob(event_id) ==
    [telegram_update_id |-> event_id, status |-> "queued", attempt_count |-> 0,
     bundle_id |-> 0, preview_url |-> <<>>, error_message |-> "none",
     validation_errors |-> {}]

NoDecision == [message |-> "none", job_id |-> 0, send_text |-> "none", notify_started |-> FALSE,
               status |-> 0]

WebhookDecision(msg, job_id, send_text, notify) ==
    [message |-> msg, job_id |-> job_id, send_text |-> send_text, notify_started |-> notify,
     status |-> 200]

\* raise HTTPException(status_code, detail): the reply carries no decision
HTTPException(status_code, detail) ==
    [message |-> detail, job_id |-> 0, send_text |-> "none", notify_started |-> FALSE,
     status |-> status_code]

\* the history of terminal statuses follows the job table
SeenAfter(newJobs) ==
    [j \in JobIds |-> IF newJobs[j].status \in Terminal
                      THEN termSeen[j] \cup {newJobs[j].status}
                      ELSE termSeen[j]]

\* --------------------------------------------------------------- queues
EmptyBag(S) == [x \in S |-> 0]
BagAdd(b, x) == [b EXCEPT ![x] = @ + 1]
BagRemove(b, x) == [b EXCEPT ![x] = @ - 1]

\* int(delay_seconds * 1000), never negative
DelayMs(delay_seconds) == IF delay_seconds * 1000 < 0 THEN 0 ELSE delay_seconds * 1000

Pow2(n) == IF n <= 0 THEN 1 ELSE 2 ^ n

\* variant: the exponent is the attempt number
RetryDelayOffByOne(attempt) ==
    LET d == retry_base_delay * Pow2(attempt)
    IN IF d < retry_max_delay THEN d ELSE retry_max_delay

\* min(retry_base_delay * 2 ** (attempt - 1), retry_max_delay)
RetryDelay(attempt) ==
    LET d == retry_base_delay * Pow2(attempt - 1)
    IN IF d < retry_max_delay THEN d ELSE retry_max_delay

DelayKeys == Msgs \X {DelayMs(RetryDelay(a)) : a \in Attempts}

\* --------------------------------------------------------------- notices
\* settings.preview_base_url of the deployment (the default is the empty string)
preview_base_url == "https://preview.example"

\* a text sent to the chat of job j
Notice(j, kind, text) == [job |-> j, kind |-> kind, text |-> text]

\* f"/p/{bundle_id}/index.html"
PreviewUrl(bundle_id) == <<"/p/", ToString(bundle_id), "/index.html">>

\* variant: the base url is left out
FullUrlRelative(preview_url, base_url) == preview_url

\* f"{base_url}{preview_url}" if base_url else preview_url
FullUrl(preview_url, base_url) == IF base_url # "" THEN <<base_url>> \o preview_url ELSE preview_url

\* notify_job_completed: the text with the link
CompletedText(preview_url, base_url) == <<"Your page is ready! Preview: ">> \o FullUrl(preview_url, base_url)

\* _MESSAGE_MAP.get(send_text, send_text): a text that is no key of the map is sent as it is
SendText(send_text) == <<send_text>>

\* --------------------------------------------------------------- template validator
\* sequences over S of length at most n
SeqUpTo(S, n) == UNION {[1..k -> S] : k \in 0..n}

\* a parsed template package: its lists and the string fields the validator reads;
\* "" stands for an absent key
DataSourceRecs == [id : {"ds1"}, endpoint : {"get.products", "/api/products", "delete.users"}]
ActionRecs == [id : {"ac1"}, endpoint : {"Shop.post_carts"}]
ButtonRecs == [actionRef : {"ac1"}]
SectionRecs ==
    [type : {"hero", "products", "form"}, dataSource : {"", "ds1"},
     actionRef : {"", "ac1"}, buttons : SeqUpTo(ButtonRecs, MaxButtons),
     className : {"p-4", "content-[<b>]"},
     title : {"Hi", "<script>alert(1)</script>", "<div x-html=y>"}]
Packages ==
    [dataSources : SeqUpTo(DataSourceRecs, MaxDataSources),
     actions : SeqUpTo(ActionRecs, MaxActions),
     sections : SeqUpTo(SectionRecs, MaxSections),
     primaryColor : {"", "#3B82F6", "red", "not-a-color"},
     route : {<<>>, <<"/", "x">>, <<"x">>, <<"/", ".", ".", "/", "x">>},
     pageType : {"", "landing"}]

\* the package of the validator tests
BasePkg ==
    [dataSources |-> <<[id |-> "ds1", endpoint |-> "get.products"]>>,
     actions |-> <<[id |-> "ac1", endpoint |-> "Shop.post_carts"]>>,
     sections |-> <<[type |-> "products", dataSource |-> "ds1", actionRef |-> "",
                     buttons |-> <<[actionRef |-> "ac1"]>>, className |-> "p-4",
                     title |-> "Hi"]>>,
     primaryColor |-> "#3B82F6", route |-> <<"/", "x">>, pageType |-> "landing"]

\* the empty object
EmptyPkg ==
    [dataSources |-> <<>>, actions |-> <<>>, sections |-> <<>>,
     primaryColor |-> "", route |-> <<>>, pageType |-> ""]

\* packages that differ in their references: sections and buttons that name a declared
\* id, an undeclared one ("ds9", "ac9") or none
RefSectionRecs ==
    [type : {"products"}, dataSource : {"", "ds1", "ds9"}, actionRef : {"", "ac1", "ac9"},
     buttons : SeqUpTo([actionRef : {"", "ac1", "ac9"}], MaxButtons),
     className : {"p-4"}, title : {"Hi"}]
RefPackages ==
    [dataSources : SeqUpTo([id : {"ds1", "ds2"}, endpoint : {"get.products"}], MaxDataSources),
     actions : SeqUpTo(ActionRecs, MaxActions),
     sections : SeqUpTo(RefSectionRecs, MaxSections),
     primaryColor : {"#3B82F6"}, route : {<<"/", "x">>}, pageType : {"landing"}]

\* metadata.route values, character by character ("x": a letter or digit)
Routes ==
    {<<"/">>, <<"/", "x">>, <<"/", "x", "/", "{", "x", "}">>, <<"/", "x", "_", "x", "-", "x">>,
     <<"x">>, <<"x", "?", "x">>, <<"/", "x", "?", "x">>, <<"/", "<", "x">>,
     <<"/", ".", ".", "/", "x">>, <<"/", "x", ".", ".", "x">>, <<"/", ".", ".">>,
     <<"/", "x", ".", "x">>, <<"/", "x", " ", "x">>}
RoutePackages == {[pkg EXCEPT !.route = route] : pkg \in {BasePkg, EmptyPkg}, route \in Routes}

\* the packages validate is called on
ValidatorInputs == Packages \cup RefPackages \cup RoutePackages

\* the regular expressions, on the strings a package of the model can hold
API_PATTERN(ep) == ep \in {"get.products", "delete.users"}
MODULE_PATTERN(ep) == ep \in {"Shop.post_carts"}
DANGEROUS_ENDPOINTS(ep) == ep \in {"delete.users"}
UNSAFE_PATTERNS(s) == IF s = "<script>alert(1)</script>" THEN {"script tag"} ELSE {}
ALPINE_UNSAFE_PATTERNS(s) == IF s = "<div x-html=y>" THEN {"x-html directive"} ELSE {}
TAILWIND_DANGEROUS_PATTERNS(cn) == IF cn = "content-[<b>]" THEN {"content-[] with HTML"} ELSE {}
HEX_COLOR(color) == color \in {"#3B82F6"}
css_named == {"black", "white", "red", "green", "blue", "yellow", "transparent"}
\* a route is its sequence of characters; "x" stands for any letter or digit
Range(f) == {f[i] : i \in DOMAIN f}
\* ^/[a-zA-Z0-9_\-/{}]*$
ROUTE_VALID(route) ==
    /\ route # <<>>
    /\ route[1] = "/"
    /\ \A i \in DOMAIN route : route[i] \in {"/", "x", "_", "-", "{", "}"}
\* "../" and the characters < > " ' (no route of the model spells "javascript:")
ROUTE_DANGEROUS(route) ==
    (IF \E i \in DOMAIN route : /\ i + 2 \in DOMAIN route
                                /\ route[i] = "." /\ route[i + 1] = "." /\ route[i + 2] = "/"
     THEN {"directory traversal (..)"} ELSE {})
    \cup (IF "<" \in Range(route) THEN {"special characters"} ELSE {})
PAGE_TYPE_REQUIREMENTS ==
    [landing |-> [recommended_sections |-> {"hero", "features", "cta"}]]

\* the errors of one endpoint: a bad format and a dangerous name are separate errors
EndpointErrors(list, i, ep) ==
    (IF ep # "" /\ ~(API_PATTERN(ep) \/ MODULE_PATTERN(ep))
     THEN {<<list, i, 0, "invalid format">>} ELSE {})
    \cup (IF ep # "" /\ DANGEROUS_ENDPOINTS(ep)
          THEN {<<list, i, 0, "matches dangerous pattern">>} ELSE {})

validate_endpoints(pkg) ==
    UNION {EndpointErrors("dataSources", i, pkg.dataSources[i].endpoint) :
               i \in DOMAIN pkg.dataSources}
    \cup UNION {EndpointErrors("actions", i, pkg.actions[i].endpoint) : i \in DOMAIN pkg.actions}

\* variant: the buttons of a section are not looked at
validate_crossrefs_sections_only(pkg) ==
    LET ds_ids == {pkg.dataSources[i].id : i \in DOMAIN pkg.dataSources} \ {""}
        ac_ids == {pkg.actions[i].id : i \in DOMAIN pkg.actions} \ {""}
        sec(i) == pkg.sections[i]
    IN {<<"sections.dataSource", i, 0, "references unknown id">> : i \in {k \in DOMAIN pkg.sections :
                sec(k).dataSource # "" /\ sec(k).dataSource \notin ds_ids}}
       \cup {<<"sections.actionRef", i, 0, "references unknown id">> : i \in {k \in DOMAIN pkg.sections :
                sec(k).actionRef # "" /\ sec(k).actionRef \notin ac_ids}}

validate_crossrefs(pkg) ==
    LET ds_ids == {pkg.dataSources[i].id : i \in DOMAIN pkg.dataSources} \ {""}
        ac_ids == {pkg.actions[i].id : i \in DOMAIN pkg.actions} \ {""}
        sec(i) == pkg.sections[i]
    IN {<<"sections.dataSource", i, 0, "references unknown id">> : i \in {k \in DOMAIN pkg.sections :
                sec(k).dataSource # "" /\ sec(k).dataSource \notin ds_ids}}
       \cup {<<"sections.actionRef", i, 0, "references unknown id">> : i \in {k \in DOMAIN pkg.sections :
                sec(k).actionRef # "" /\ sec(k).actionRef \notin ac_ids}}
       \cup UNION {{<<"sections.buttons.actionRef", i, j, "references unknown id">> : j \in {b \in DOMAIN sec(i).buttons :
                sec(i).buttons[b].actionRef # "" /\ sec(i).buttons[b].actionRef \notin ac_ids}} :
                i \in DOMAIN pkg.sections}

\* every string value of the package, as the recursive walks visit them (none of the
\* routes of the model matches a pattern of the two walks)
StringsOf(pkg) ==
    {pkg.primaryColor, pkg.pageType}
    \cup UNION {{pkg.dataSources[i].id, pkg.dataSources[i].endpoint} : i \in DOMAIN pkg.dataSources}
    \cup UNION {{pkg.actions[i].id, pkg.actions[i].endpoint} : i \in DOMAIN pkg.actions}
    \cup UNION {{pkg.sections[i].type, pkg.sections[i].dataSource, pkg.sections[i].actionRef,
                 pkg.sections[i].className, pkg.sections[i].title}
                \cup {pkg.sections[i].buttons[j].actionRef : j \in DOMAIN pkg.sections[i].buttons} :
                i \in DOMAIN pkg.sections}

find_unsafe_strings(pkg) ==
    UNION {{<<s, 0, 0, desc>> : desc \in UNSAFE_PATTERNS(s)} : s \in StringsOf(pkg)}

validate_alpine(pkg) ==
    UNION {{<<s, 0, 0, desc>> : desc \in ALPINE_UNSAFE_PATTERNS(s)} : s \in StringsOf(pkg)}

\* no class name of the model is longer than MAX_CLASSNAME_LENGTH
validate_tailwind(pkg) ==
    UNION {{<<"sections.className", i, 0, desc>> :
                desc \in TAILWIND_DANGEROUS_PATTERNS(pkg.sections[i].className)} :
               i \in DOMAIN pkg.sections}

\* theme.primaryColor (darkMode is not part of the packages of the model)
validate_theme(pkg) ==
    LET color == pkg.primaryColor
    IN IF color # "" /\ ~HEX_COLOR(color) /\ color \notin css_named
       THEN {<<"theme.primaryColor", 0, 0, "is not a valid hex color format">>} ELSE {}

validate_route(pkg) ==
    LET route == pkg.route
    IN IF route = <<>> THEN {}
       ELSE {<<"metadata.route", 0, 0, desc>> : desc \in ROUTE_DANGEROUS(route)}
            \cup (IF ROUTE_VALID(route) THEN {}
                  ELSE IF "?" \in Range(route)
                       THEN {<<"metadata.route", 0, 0, "contains query string - handle separately">>}
                       ELSE IF route[1] # "/"
                            THEN {<<"metadata.route", 0, 0, "must start with '/'">>} ELSE {})

validate_page_type(pkg) ==
    LET page_type == pkg.pageType
        section_types == {pkg.sections[i].type : i \in DOMAIN pkg.sections}
    IN IF page_type = "" \/ page_type \notin DOMAIN PAGE_TYPE_REQUIREMENTS THEN {}
       ELSE {<<page_type, sec_type>> :
                sec_type \in PAGE_TYPE_REQUIREMENTS[page_type].recommended_sections \ section_types}

validate_completeness(pkg) ==
    LET sections == pkg.sections
    IN IF sections = <<>> THEN {<<0, "sections array is empty - page has no content">>}
       ELSE {<<i, "form section has no fields defined">> :
                i \in {k \in DOMAIN sections : sections[k].type = "form"}}
            \cup {<<i, "form section has no actionRef - form won't submit">> :
                i \in {k \in DOMAIN sections :
                          sections[k].type = "form" /\ sections[k].actionRef = ""}}
            \cup {<<i, "section has no dataSource">> :
                i \in {k \in DOMAIN sections :
                          sections[k].type \in {"products", "posts"} /\ sections[k].dataSource = ""}}

\* ValidationResult
ValidationResult(valid, endpoint_errors, crossref_errors, security_flags, alpine_errors, tailwind_errors, theme_errors, route_errors, page_type_warnings, completeness_warnings) ==
    [valid |-> valid, endpoint_errors |-> endpoint_errors, crossref_errors |-> crossref_errors,
     security_flags |-> security_flags, alpine_errors |-> alpine_errors,
     tailwind_errors |-> tailwind_errors, theme_errors |-> theme_errors,
     route_errors |-> route_errors, page_type_warnings |-> page_type_warnings,
     completeness_warnings |-> completeness_warnings]

\* variant: warnings count as errors
has_errors_or_warnings(result) ==
    \/ result.endpoint_errors # {}
    \/ result.crossref_errors # {}
    \/ result.security_flags # {}
    \/ result.alpine_errors # {}
    \/ result.tailwind_errors # {}
    \/ result.theme_errors # {}
    \/ result.route_errors # {}
    \/ result.page_type_warnings # {}
    \/ result.completeness_warnings # {}

has_errors(result) ==
    \/ result.endpoint_errors # {}
    \/ result.crossref_errors # {}
    \/ result.security_flags # {}
    \/ result.alpine_errors # {}
    \/ result.tailwind_errors # {}
    \/ result.theme_errors # {}
    \/ result.route_errors # {}

has_warnings(result) ==
    result.page_type_warnings # {} \/ result.completeness_warnings # {}

all_errors(result) ==
    result.endpoint_errors \cup result.crossref_errors \cup result.security_flags
    \cup result.alpine_errors \cup result.tailwind_errors \cup result.theme_errors
    \cup result.route_errors

\* TemplateValidator.validate: every layer runs; valid = not has_errors()
Validate(pkg) ==
    LET result == ValidationResult(TRUE, validate_endpoints(pkg), validate_crossrefs(pkg),
                                   find_unsafe_strings(pkg), validate_alpine(pkg),
                                   validate_tailwind(pkg), validate_theme(pkg),
                                   validate_route(pkg), validate_page_type(pkg),
                                   validate_completeness(pkg))
    IN [result EXCEPT !.valid = ~has_errors(result)]

\* json.loads of the model's text
Package(o) ==
    CASE o = "tpl_ok" -> BasePkg
      [] o = "tpl_warn" -> [BasePkg EXCEPT !.sections[1].dataSource = ""]
      [] o = "tpl_unsafe" -> [BasePkg EXCEPT !.sections[1].title = "<script>alert(1)</script>"]
      [] o = "tpl_empty" -> EmptyPkg

\* --------------------------------------------------------------- model adapter
\* what the Vertex call yields: a configuration or HTTP outcome, or a JSON text
Templates == {"tpl_ok", "tpl_warn", "tpl_unsafe", "tpl_empty"}
Outputs == {"not_configured", "http_429", "http_400", "http_500", "timeout", "bad_json"} \cup Templates

\* GenerationResult; validation is a set: empty for None
GenerationResult(success, template, retryable, validation) ==
    [success |-> success, template |-> template, retryable |-> retryable, validation |-> validation]

NoResult == GenerationResult(FALSE, "none", FALSE, {})

\* variant: the adapter returns every parsed template as a success
GenerateUnchecked(o) ==
    IF o \in Templates THEN GenerationResult(TRUE, o, FALSE, {Validate(Package(o))})
    ELSE GenerationResult(FALSE, "none", o \in {"http_429", "http_500", "timeout", "bad_json"}, {})

\* VertexAIAdapter.generate
Generate(o) ==
    CASE o = "not_configured" -> GenerationResult(FALSE, "none", FALSE, {})
      [] o = "http_429" -> GenerationResult(FALSE, "none", TRUE, {})
      [] o = "http_400" -> GenerationResult(FALSE, "none", FALSE, {})
      [] o = "http_500" -> GenerationResult(FALSE, "none", TRUE, {})
      [] o = "timeout" -> GenerationResult(FALSE, "none", TRUE, {})
      [] o = "bad_json" -> GenerationResult(FALSE, "none", TRUE, {})
      [] OTHER -> IF has_errors(Validate(Package(o)))
                  THEN GenerationResult(FALSE, o, TRUE, {Validate(Package(o))})
                  ELSE GenerationResult(TRUE, o, FALSE, {Validate(Package(o))})

Results == {Generate(o) : o \in Outputs}

\* variant: every failure counts as retryable
RetryableAlways(r) == TRUE

Retryable(r) == r.retryable

\* "if not template": None and the empty object are falsy
Falsy(template) == template \in {"none", "tpl_empty"}

\* variant: a retryable failure is requeued whatever the attempt number
AfterResultNoLimit(r, attempt) ==
    IF ~r.success
    THEN IF Retryable(r) THEN "retry_finish" ELSE "fail_finish"
    ELSE IF Falsy(r.template) THEN "exc_finish" ELSE "create_bundle"

\* the branch process_job takes on the result
AfterResult(r, attempt) ==
    IF ~r.success
    THEN IF Retryable(r) /\ attempt < max_retries THEN "retry_finish" ELSE "fail_finish"
    ELSE IF Falsy(r.template) THEN "exc_finish" ELSE "create_bundle"

\* --------------------------------------------------------------- Init
InitSystem ==
    /\ delivered = 0
    /\ events = {}
    /\ jobs = [j \in JobIds |-> NoJob]
    /\ attempts = <<>>
    /\ itxn = [h \in Handlers |-> "none"]
    /\ ipc = [h \in Handlers |-> "idle"]
    /\ ireq = [h \in Handlers |-> 0]
    /\ iupd = [h \in Handlers |-> 0]
    /\ iresp = [h \in Handlers |-> NoDecision]
    /\ mainq = EmptyBag(Msgs)
    /\ delayq = EmptyBag(DelayKeys)
    /\ dlq = EmptyBag(Msgs)
    /\ wpc = [w \in Workers |-> "idle"]
    /\ wmsg = [w \in Workers |-> <<0, 0>>]
    /\ wlive = [w \in Workers |-> FALSE]
    /\ watt = [w \in Workers |-> 0]
    /\ wres = [w \in Workers |-> NoResult]
    /\ wbundle = [w \in Workers |-> 0]
    /\ wdone = [w \in Workers |-> FALSE]
    /\ bundles = {}
    /\ notified = [j \in JobIds |-> 0]
    /\ notices = {}
    /\ redelivered = 0
    /\ pubFails = 0
    /\ aiCalls = EmptyBag(Msgs)
    /\ ingestPubs = [u \in UpdateIds |-> 0]
    /\ termSeen = [j \in JobIds |-> {}]
    /\ brokerBlocked = FALSE

\* no validator call outside the episodes
Init ==
    /\ InitSystem
    /\ vpkg = EmptyPkg
    /\ vres = {}

\* ------------------------------------------------------------- ingest
\* message texts the transport delivers ("" stands for an update without text)
Texts == {"", "/start", "/help", "hello", "/prompt", "/prompt   ", "/prompt page", "/promptfoo"}
\* chat ids of the update (0: the update has no message, hence no chat)
Chats == {0, 123}

\* _extract_prompt: None unless the text starts with "/prompt", else the stripped rest
ExtractPrompt(text) ==
    CASE text = "/prompt" -> ""
      [] text = "/prompt   " -> ""
      [] text = "/prompt page" -> "page"
      [] text = "/promptfoo" -> "foo"
      [] OTHER -> "None"

\* the early returns of handle_telegram_update before any database work
\* variant: an empty payload is not told apart
ClassifyEmptyAsPrompt(text, chat_id) ==
    IF text = "" \/ chat_id = 0 THEN "Ignored"
    ELSE IF text = "/start" THEN "Start"
    ELSE IF text = "/help" THEN "Help"
    ELSE IF ExtractPrompt(text) = "None" THEN "Invalid command"
    ELSE "prompt"

Classify(text, chat_id) ==
    IF text = "" \/ chat_id = 0 THEN "Ignored"
    ELSE IF text = "/start" THEN "Start"
    ELSE IF text = "/help" THEN "Help"
    ELSE IF ExtractPrompt(text) = "None" THEN "Invalid command"
    ELSE IF ExtractPrompt(text) = "" THEN "Empty prompt"
    ELSE "prompt"

CannedText(kind) ==
    CASE kind = "Start" -> "WELCOME_MESSAGE"
      [] kind = "Help" -> "HELP_MESSAGE"
      [] kind = "Invalid command" -> "INVALID_COMMAND_MESSAGE"
      [] kind = "Empty prompt" -> "EMPTY_PROMPT_MESSAGE"
      [] OTHER -> "none"

\* the X-Telegram-Bot-Api-Secret-Token header values and the request bodies the
\* transport (or anybody else) sends; "update" is a body that parses into a TelegramUpdate
telegram_secret_token == "secret"
Secrets == {"secret", "wrong"}
Bodies == {"not_json", "not_update", "update"}

\* variant: the body is parsed before the secret is compared
ControllerParseFirst(secret, body) ==
    IF body = "not_json" THEN HTTPException(400, "Invalid JSON body")
    ELSE IF body = "not_update" THEN HTTPException(400, "Invalid Telegram update format")
    ELSE IF secret # telegram_secret_token THEN HTTPException(401, "Invalid secret token")
    ELSE NoDecision

\* telegram_webhook before handle_telegram_update: the secret check, request.json(),
\* TelegramUpdate.model_validate; NoDecision when the request goes on to the service
Controller(secret, body) ==
    IF secret # telegram_secret_token THEN HTTPException(401, "Invalid secret token")
    ELSE IF body = "not_json" THEN HTTPException(400, "Invalid JSON body")
    ELSE IF body = "not_update" THEN HTTPException(400, "Invalid Telegram update format")
    ELSE NoDecision

\* a webhook request the controller rejects: the HTTPException is the reply, and
\* get_session rolls the (empty) session back
IngestReject(h, secret, body) ==
    /\ ipc[h] = "idle"
    /\ \A o \in Handlers : o < h => ipc[o] # "idle"
    /\ delivered < MaxDeliveries
    /\ Controller(secret, body) # NoDecision
    /\ delivered' = delivered + 1
    /\ ireq' = [ireq EXCEPT ![h] = delivered + 1]
    /\ ipc' = [ipc EXCEPT ![h] = "respond"]
    /\ iresp' = [iresp EXCEPT ![h] = Controller(secret, body)]
    /\ UNCHANGED <<dbVars, itxn, iupd, pubFails, queueVars, workerVars, outVars, histVars, vpkg, vres, brokerBlocked>>

\* a webhook request arrives; the handlers are interchangeable coroutines, so the
\* request is given to the first idle one
IngestReceive(h, u, text, chat_id) ==
    /\ ipc[h] = "idle"
    /\ \A o \in Handlers : o < h => ipc[o] # "idle"
    /\ delivered < MaxDeliveries
    /\ Controller(telegram_secret_token, "update") = NoDecision
    /\ delivered' = delivered + 1
    /\ ireq' = [ireq EXCEPT ![h] = delivered + 1]
    /\ iupd' = [iupd EXCEPT ![h] = u]
    /\ IF Classify(text, chat_id) = "prompt"
       THEN /\ ipc' = [ipc EXCEPT ![h] = "insert"]
            /\ iresp' = [iresp EXCEPT ![h] = NoDecision]
       ELSE /\ ipc' = [ipc EXCEPT ![h] = "respond"]
            /\ iresp' = [iresp EXCEPT ![h] =
                   WebhookDecision(Classify(text, chat_id), 0,
                                   CannedText(Classify(text, chat_id)), FALSE)]
    /\ UNCHANGED <<dbVars, itxn, pubFails, queueVars, workerVars, outVars, histVars, vpkg, vres, brokerBlocked>>

\* variant: no unique index on update_id, every insert succeeds
NoUpdateIdConflict(u) == FALSE

\* UNIQUE(update_id): a committed row with this update_id makes ON CONFLICT DO NOTHING insert nothing
UpdateIdConflict(u) == \E e \in events : e.update_id = u

\* an uncommitted insert of the same update_id by another session holds the index entry:
\* the statement waits until that transaction ends
UpdateIdLocked(h, u) == \E o \in Handlers : o # h /\ itxn[o] # "none" /\ iupd[o] = u

\* insert_telegram_update_dedup: row id if inserted, None on a duplicate
IngestInsert(h) ==
    /\ ipc[h] = "insert"
    /\ ~UpdateIdLocked(h, iupd[h])
    /\ IF UpdateIdConflict(iupd[h])
       THEN /\ ipc' = [ipc EXCEPT ![h] = "duplicate"]
            /\ itxn' = itxn
       ELSE /\ ipc' = [ipc EXCEPT ![h] = "create_job"]
            /\ itxn' = [itxn EXCEPT ![h] = "event"]
    /\ UNCHANGED <<dbVars, delivered, ireq, iupd, iresp, pubFails, queueVars, workerVars, outVars, histVars, vpkg, vres, brokerBlocked>>

\* variant: the lookup finds no job
FindJobByUpdateIdNone(u) == 0

\* find_job_by_update_id: the job joined to the telegram_update row with this update_id
FindJobByUpdateId(u) ==
    LET found == {j \in JobIds : /\ jobs[j].status # "none"
                                /\ \E e \in events : e.update_id = u /\ e.id = jobs[j].telegram_update_id}
    IN IF found = {} THEN 0 ELSE CHOOSE j \in found : TRUE

\* variant: the duplicate branch enqueues the existing job again
IngestDuplicateRepublish(h) ==
    /\ ipc[h] = "duplicate"
    /\ iresp' = [iresp EXCEPT ![h] =
           WebhookDecision("Already processing", FindJobByUpdateId(iupd[h]), "none", FALSE)]
    /\ ipc' = [ipc EXCEPT ![h] = IF FindJobByUpdateId(iupd[h]) # 0 THEN "publish" ELSE "respond"]
    /\ UNCHANGED <<dbVars, delivered, itxn, ireq, iupd, pubFails, queueVars, workerVars, outVars, histVars, vpkg, vres, brokerBlocked>>

\* the duplicate branch: reply with the existing job, or "Already received"
IngestDuplicate(h) ==
    /\ ipc[h] = "duplicate"
    /\ iresp' = [iresp EXCEPT ![h] =
           IF FindJobByUpdateId(iupd[h]) # 0
           THEN WebhookDecision("Already processing", FindJobByUpdateId(iupd[h]), "none", FALSE)
           ELSE WebhookDecision("Already received", 0, "none", FALSE)]
    /\ ipc' = [ipc EXCEPT ![h] = "respond"]
    /\ UNCHANGED <<dbVars, delivered, itxn, ireq, iupd, pubFails, queueVars, workerVars, outVars, histVars, vpkg, vres, brokerBlocked>>

\* variant: create_job followed directly by the publish, the commit left to get_session
IngestCreateJobNoCommit(h) ==
    /\ ipc[h] = "create_job"
    /\ itxn' = [itxn EXCEPT ![h] = "event_job"]
    /\ iresp' = [iresp EXCEPT ![h] = WebhookDecision("none", ireq[h], "none", FALSE)]
    /\ ipc' = [ipc EXCEPT ![h] = "publish"]
    /\ UNCHANGED <<dbVars, delivered, ireq, iupd, pubFails, queueVars, workerVars, outVars, histVars, vpkg, vres, brokerBlocked>>

\* create_job: db.add + flush inside the request transaction; the id is fresh
IngestCreateJob(h) ==
    /\ ipc[h] = "create_job"
    /\ itxn' = [itxn EXCEPT ![h] = "event_job"]
    /\ iresp' = [iresp EXCEPT ![h] = WebhookDecision("none", ireq[h], "none", FALSE)]
    /\ ipc' = [ipc EXCEPT ![h] = "commit"]
    /\ UNCHANGED <<dbVars, delivered, ireq, iupd, pubFails, queueVars, workerVars, outVars, histVars, vpkg, vres, brokerBlocked>>

\* the rows a session commit makes visible
EventsCommitted(h) ==
    IF itxn[h] = "none" THEN events
    ELSE events \cup {[id |-> ireq[h], update_id |-> iupd[h]]}

\* variant: the event row is committed on its own, the job row is lost
JobsCommittedEventOnly(h) == jobs

JobsCommitted(h) ==
    IF itxn[h] = "event_job" THEN [jobs EXCEPT ![ireq[h]] = NewJob(ireq[h])] ELSE jobs

\* await db.commit() after create_job
IngestCommit(h) ==
    /\ ipc[h] = "commit"
    /\ events' = EventsCommitted(h)
    /\ jobs' = JobsCommitted(h)
    /\ itxn' = [itxn EXCEPT ![h] = "none"]
    /\ ipc' = [ipc EXCEPT ![h] = "publish"]
    /\ termSeen' = SeenAfter(jobs')
    /\ UNCHANGED <<attempts, delivered, ireq, iupd, iresp, pubFails, queueVars, workerVars, outVars, aiCalls, ingestPubs, vpkg, vres, brokerBlocked>>

\* await mq.publish_job(job_id, attempt=1): the message reaches the main queue, or the
\* call raises, once the broker answers; the call carries no timeout
IngestPublish(h) ==
    /\ ipc[h] = "publish"
    /\ ~brokerBlocked
    /\ \/ /\ mainq' = BagAdd(mainq, <<iresp[h].job_id, 1>>)
          /\ ingestPubs' = [ingestPubs EXCEPT ![iupd[h]] = @ + 1]
          /\ iresp' = [iresp EXCEPT ![h] = WebhookDecision("none", iresp[h].job_id, "none", TRUE)]
          /\ ipc' = [ipc EXCEPT ![h] = "respond"]
          /\ UNCHANGED pubFails
       \/ /\ pubFails < MaxPublishFail
          /\ pubFails' = pubFails + 1
          /\ ipc' = [ipc EXCEPT ![h] = "mark_failed"]
          /\ UNCHANGED <<mainq, ingestPubs, iresp>>
    /\ UNCHANGED <<dbVars, delivered, itxn, ireq, iupd, delayq, dlq, workerVars, outVars, aiCalls, termSeen, vpkg, vres, brokerBlocked>>

\* mark_job_failed + flush: UPDATE job SET status, error_message WHERE id = :id
MarkJobFailed(j) == [jobs EXCEPT ![j].status = "failed", ![j].error_message = "enqueue"]

\* the except branch of the publish: find the job, mark it failed, commit;
\* an exception in there is swallowed (except Exception: pass)
IngestMarkFailed(h) ==
    /\ ipc[h] = "mark_failed"
    /\ \/ /\ jobs' = IF FindJobByUpdateId(iupd[h]) # 0
                     THEN MarkJobFailed(FindJobByUpdateId(iupd[h]))
                     ELSE jobs
       \/ /\ jobs' = jobs
    /\ termSeen' = SeenAfter(jobs')
    /\ iresp' = [iresp EXCEPT ![h] =
           WebhookDecision("Queue publish failed", iresp[h].job_id, "QUEUE_ERROR", FALSE)]
    /\ ipc' = [ipc EXCEPT ![h] = "respond"]
    /\ UNCHANGED <<events, attempts, delivered, itxn, ireq, iupd, pubFails, queueVars, workerVars, outVars, aiCalls, ingestPubs, vpkg, vres, brokerBlocked>>

\* the controller returns the response iresp[h], its send_text going to the chat as a
\* background task; get_session commits what the session still holds; the handler is
\* free for the next request
IngestRespond(h) ==
    /\ ipc[h] = "respond"
    /\ events' = EventsCommitted(h)
    /\ jobs' = JobsCommitted(h)
    /\ itxn' = [itxn EXCEPT ![h] = "none"]
    /\ ipc' = [ipc EXCEPT ![h] = "idle"]
    /\ ireq' = [ireq EXCEPT ![h] = 0]
    /\ iupd' = [iupd EXCEPT ![h] = 0]
    /\ iresp' = [iresp EXCEPT ![h] = NoDecision]
    /\ termSeen' = SeenAfter(jobs')
    /\ notices' = IF iresp[h].send_text = "QUEUE_ERROR"
                  THEN notices \cup {Notice(iresp[h].job_id, "queue_error", SendText("QUEUE_ERROR"))}
                  ELSE notices
    /\ UNCHANGED <<attempts, delivered, pubFails, queueVars, workerVars, bundles, notified, aiCalls, ingestPubs, vpkg, vres, brokerBlocked>>

\* ------------------------------------------------------------- queue
\* consume: the broker hands one ready message to a consumer without one (prefetch_count=1);
\* the consumers are interchangeable, so it goes to the first idle one
Deliver(w, m) ==
    /\ wpc[w] = "idle"
    /\ \A o \in Workers : o < w => wpc[o] # "idle"
    /\ mainq[m] > 0
    /\ mainq' = BagRemove(mainq, m)
    /\ wmsg' = [wmsg EXCEPT ![w] = m]
    /\ wlive' = [wlive EXCEPT ![w] = TRUE]
    /\ wpc' = [wpc EXCEPT ![w] = "fetch"]
    /\ UNCHANGED <<dbVars, ingestVars, delayq, dlq, watt, wres, wbundle, wdone, redelivered, outVars, histVars, vpkg, vres, brokerBlocked>>

\* a delay queue's x-message-ttl runs out: the message is dead-lettered into the main queue
DelayExpire(m, d) ==
    /\ delayq[<<m, d>>] > 0
    /\ delayq' = BagRemove(delayq, <<m, d>>)
    /\ mainq' = BagAdd(mainq, m)
    /\ UNCHANGED <<dbVars, ingestVars, dlq, workerVars, outVars, histVars, vpkg, vres, brokerBlocked>>

\* the worker is inside consume's handling of a message
Busy(w) == wpc[w] \notin {"idle", "stopped"}

\* the consumer's connection drops while the handler runs: the broker requeues the
\* unacknowledged message, connect_robust reconnects, the handler coroutine goes on
Redeliver(w) ==
    /\ Busy(w)
    /\ wlive[w]
    /\ redelivered < MaxRedeliver
    /\ redelivered' = redelivered + 1
    /\ wlive' = [wlive EXCEPT ![w] = FALSE]
    /\ mainq' = BagAdd(mainq, wmsg[w])
    /\ UNCHANGED <<dbVars, ingestVars, delayq, dlq, wpc, wmsg, watt, wres, wbundle, wdone, outVars, histVars, vpkg, vres, brokerBlocked>>

\* the worker process dies in the middle of handle_message and is restarted
Crash(w) ==
    /\ Busy(w)
    /\ redelivered < MaxRedeliver
    /\ redelivered' = redelivered + 1
    /\ mainq' = IF wlive[w] THEN BagAdd(mainq, wmsg[w]) ELSE mainq
    /\ wpc' = [wpc EXCEPT ![w] = "idle"]
    /\ wmsg' = [wmsg EXCEPT ![w] = <<0, 0>>]
    /\ wlive' = [wlive EXCEPT ![w] = FALSE]
    /\ watt' = [watt EXCEPT ![w] = 0]
    /\ wres' = [wres EXCEPT ![w] = NoResult]
    /\ wbundle' = [wbundle EXCEPT ![w] = 0]
    /\ wdone' = [wdone EXCEPT ![w] = FALSE]
    /\ UNCHANGED <<dbVars, ingestVars, delayq, dlq, outVars, histVars, vpkg, vres, brokerBlocked>>

\* ------------------------------------------------------------- worker store
\* variant: the FAILED update carries no validation report
ValidationErrorsDropped(result) == {}

\* {"errors": result.validation.all_errors()} if result.validation else None
\* (a set: empty for None)
ValidationErrors(result) == {all_errors(v) : v \in result.validation}

\* variant: attempt_count is never incremented
UpdateJobStatusNoIncrement(j, status, bundle_id, preview_url, error_message, validation_errors, increment_attempts) ==
    IF jobs[j].status = "none" THEN jobs
    ELSE [jobs EXCEPT ![j] =
            [telegram_update_id |-> @.telegram_update_id,
             status |-> status,
             attempt_count |-> @.attempt_count,
             bundle_id |-> IF bundle_id # 0 THEN bundle_id ELSE @.bundle_id,
             preview_url |-> IF preview_url # <<>> THEN preview_url ELSE @.preview_url,
             error_message |-> IF error_message # "none" THEN error_message ELSE @.error_message,
             validation_errors |-> IF validation_errors # {} THEN validation_errors
                                   ELSE @.validation_errors]]

\* update_job_status: UPDATE job SET status = :status, <the arguments that are not None>
\* [, attempt_count = attempt_count + 1] WHERE id = :job_id
UpdateJobStatus(j, status, bundle_id, preview_url, error_message, validation_errors, increment_attempts) ==
    IF jobs[j].status = "none" THEN jobs
    ELSE [jobs EXCEPT ![j] =
            [telegram_update_id |-> @.telegram_update_id,
             status |-> status,
             attempt_count |-> IF increment_attempts THEN @.attempt_count + 1 ELSE @.attempt_count,
             bundle_id |-> IF bundle_id # 0 THEN bundle_id ELSE @.bundle_id,
             preview_url |-> IF preview_url # <<>> THEN preview_url ELSE @.preview_url,
             error_message |-> IF error_message # "none" THEN error_message ELSE @.error_message,
             validation_errors |-> IF validation_errors # {} THEN validation_errors
                                   ELSE @.validation_errors]]

\* variant: no unique constraint on (job_id, attempt_no)
NoAttemptConflict(j, n) == FALSE

\* UNIQUE(job_id, attempt_no) on job_attempt
AttemptExists(j, n) ==
    \E i \in 1..Len(attempts) : attempts[i].job_id = j /\ attempts[i].attempt_no = n

\* JobAttempt(job_id, attempt_no, provider_name): outcome starts NULL
NewAttempt(j, n) == [job_id |-> j, attempt_no |-> n, outcome |-> "null"]

\* variant: the row is not found and finish_job_attempt returns without writing
FinishJobAttemptNotFound(attempt_id, outcome) == attempts

\* finish_job_attempt: load the row by id and set outcome / finished_at
FinishJobAttempt(attempt_id, outcome) ==
    IF attempt_id \in 1..Len(attempts)
    THEN [attempts EXCEPT ![attempt_id].outcome = outcome]
    ELSE attempts

\* ------------------------------------------------------------- worker
WJob(w) == wmsg[w][1]
WAttempt(w) == wmsg[w][2]

\* process_job returns: handle_message goes on with the value
Return(w, done) ==
    /\ wdone' = [wdone EXCEPT ![w] = done]
    /\ wpc' = [wpc EXCEPT ![w] = "handled"]

\* variant: no early return, every fetched message starts an episode
WFetchNoShortCircuit(w) ==
    /\ wpc[w] = "fetch"
    /\ wpc' = [wpc EXCEPT ![w] = "set_running"]
    /\ UNCHANGED <<dbVars, ingestVars, queueVars, wmsg, wlive, watt, wres, wbundle, wdone, redelivered, outVars, histVars, vpkg, vres, brokerBlocked>>

\* fetch_job and the two early returns: no row, or a row already COMPLETED / FAILED
WFetch(w) ==
    /\ wpc[w] = "fetch"
    /\ IF jobs[WJob(w)].status = "none" \/ jobs[WJob(w)].status \in Terminal
       THEN Return(w, TRUE)
       ELSE /\ wpc' = [wpc EXCEPT ![w] = "set_running"]
            /\ UNCHANGED wdone
    /\ UNCHANGED <<dbVars, ingestVars, queueVars, wmsg, wlive, watt, wres, wbundle, redelivered, outVars, histVars, vpkg, vres, brokerBlocked>>

\* update_job_status(job_id, RUNNING, increment_attempts=True)
WSetRunning(w) ==
    /\ wpc[w] = "set_running"
    /\ jobs' = UpdateJobStatus(WJob(w), "running", 0, <<>>, "none", {}, TRUE)
    /\ termSeen' = SeenAfter(jobs')
    /\ wpc' = [wpc EXCEPT ![w] = "create_attempt"]
    /\ UNCHANGED <<events, attempts, ingestVars, queueVars, wmsg, wlive, watt, wres, wbundle, wdone, redelivered, outVars, aiCalls, ingestPubs, vpkg, vres, brokerBlocked>>

\* the consumer is free for the next message
Release(w) ==
    /\ wpc' = [wpc EXCEPT ![w] = "idle"]
    /\ wmsg' = [wmsg EXCEPT ![w] = <<0, 0>>]
    /\ wlive' = [wlive EXCEPT ![w] = FALSE]
    /\ watt' = [watt EXCEPT ![w] = 0]
    /\ wres' = [wres EXCEPT ![w] = NoResult]
    /\ wbundle' = [wbundle EXCEPT ![w] = 0]
    /\ wdone' = [wdone EXCEPT ![w] = FALSE]

\* variant: the main queue has no dead-letter exchange, a rejected message is dropped
RejectedDropped(w) == dlq

\* incoming.process(requeue=False) exits on an exception: reject, dead-lettered to the DLQ
\* (a delivery the broker already requeued can no longer be rejected)
Rejected(w) == IF wlive[w] THEN BagAdd(dlq, wmsg[w]) ELSE dlq

\* create_job_attempt(job_id, attempt, provider): outside the try block, so the
\* IntegrityError of a second row for (job_id, attempt_no) propagates through
\* handle_message and the message is rejected
WCreateAttempt(w) ==
    /\ wpc[w] = "create_attempt"
    /\ IF AttemptExists(WJob(w), WAttempt(w))
       THEN /\ dlq' = Rejected(w)
            /\ Release(w)
            /\ UNCHANGED attempts
       ELSE /\ attempts' = Append(attempts, NewAttempt(WJob(w), WAttempt(w)))
            /\ watt' = [watt EXCEPT ![w] = Len(attempts) + 1]
            /\ wpc' = [wpc EXCEPT ![w] = "call_ai"]
            /\ UNCHANGED <<dlq, wmsg, wlive, wres, wbundle, wdone>>
    /\ UNCHANGED <<events, jobs, ingestVars, mainq, delayq, redelivered, outVars, histVars, vpkg, vres, brokerBlocked>>

\* call_ai_provider(job.prompt_text)
WCallAI(w, o) ==
    /\ wpc[w] = "call_ai"
    /\ aiCalls' = BagAdd(aiCalls, wmsg[w])
    /\ wres' = [wres EXCEPT ![w] = Generate(o)]
    /\ wpc' = [wpc EXCEPT ![w] = AfterResult(Generate(o), WAttempt(w))]
    /\ UNCHANGED <<dbVars, ingestVars, queueVars, wmsg, wlive, watt, wbundle, wdone, redelivered, outVars, ingestPubs, termSeen, vpkg, vres, brokerBlocked>>

\* retryable failure below max_retries: finish_job_attempt(FAIL) ...
WRetryFinish(w) ==
    /\ wpc[w] = "retry_finish"
    /\ attempts' = FinishJobAttempt(watt[w], "fail")
    /\ wpc' = [wpc EXCEPT ![w] = "retry_update"]
    /\ UNCHANGED <<events, jobs, ingestVars, queueVars, wmsg, wlive, watt, wres, wbundle, wdone, redelivered, outVars, histVars, vpkg, vres, brokerBlocked>>

\* ... then update_job_status(QUEUED, error_message, raw_ai_response); return False
WRetryUpdate(w) ==
    /\ wpc[w] = "retry_update"
    /\ jobs' = UpdateJobStatus(WJob(w), "queued", 0, <<>>, "ai", {}, FALSE)
    /\ termSeen' = SeenAfter(jobs')
    /\ Return(w, FALSE)
    /\ UNCHANGED <<events, attempts, ingestVars, queueVars, wmsg, wlive, watt, wres, wbundle, redelivered, outVars, aiCalls, ingestPubs, vpkg, vres, brokerBlocked>>

\* permanent failure (or retryable at max_retries): finish_job_attempt(FAIL) ...
WFailFinish(w) ==
    /\ wpc[w] = "fail_finish"
    /\ attempts' = FinishJobAttempt(watt[w], "fail")
    /\ wpc' = [wpc EXCEPT ![w] = "fail_update"]
    /\ UNCHANGED <<events, jobs, ingestVars, queueVars, wmsg, wlive, watt, wres, wbundle, wdone, redelivered, outVars, histVars, vpkg, vres, brokerBlocked>>

\* ... then update_job_status(FAILED, error_message, raw_ai_response, validation_errors); return True
WFailUpdate(w) ==
    /\ wpc[w] = "fail_update"
    /\ jobs' = UpdateJobStatus(WJob(w), "failed", 0, <<>>, "ai", ValidationErrors(wres[w]), FALSE)
    /\ termSeen' = SeenAfter(jobs')
    /\ Return(w, TRUE)
    /\ UNCHANGED <<events, attempts, ingestVars, queueVars, wmsg, wlive, watt, wres, wbundle, redelivered, outVars, aiCalls, ingestPubs, vpkg, vres, brokerBlocked>>

\* variant: create_bundle returns an id without writing the directory
CreateBundleNoWrite(bundle_id) == bundles

\* StorageService.create_bundle: mkdir <previews_path>/<bundle_id> and write index.html into it
CreateBundle(bundle_id) == bundles \cup {bundle_id}

\* sanitize, render, storage.create_bundle with a fresh id; an exception in there (the
\* half-written directory is removed) hands over to the except branch
WCreateBundle(w) ==
    /\ wpc[w] = "create_bundle"
    /\ \/ /\ bundles' = CreateBundle(watt[w])
          /\ wbundle' = [wbundle EXCEPT ![w] = watt[w]]
          /\ wpc' = [wpc EXCEPT ![w] = "success_finish"]
       \/ /\ UNCHANGED <<bundles, wbundle>>
          /\ wpc' = [wpc EXCEPT ![w] = "exc_finish"]
    /\ UNCHANGED <<dbVars, ingestVars, queueVars, wmsg, wlive, watt, wres, wdone, redelivered, notified, notices, histVars, vpkg, vres, brokerBlocked>>

\* finish_job_attempt(attempt_id, SUCCESS)
WSuccessFinish(w) ==
    /\ wpc[w] = "success_finish"
    /\ attempts' = FinishJobAttempt(watt[w], "success")
    /\ wpc' = [wpc EXCEPT ![w] = "success_update"]
    /\ UNCHANGED <<events, jobs, ingestVars, queueVars, wmsg, wlive, watt, wres, wbundle, wdone, redelivered, outVars, histVars, vpkg, vres, brokerBlocked>>

\* update_job_status(COMPLETED, bundle_id, preview_url, raw_ai_response); inside the try
\* block, so a statement that raises hands over to the except branch
WSuccessUpdate(w) ==
    /\ wpc[w] = "success_update"
    /\ \/ /\ jobs' = UpdateJobStatus(WJob(w), "completed", wbundle[w], PreviewUrl(wbundle[w]), "none", {}, FALSE)
          /\ wpc' = [wpc EXCEPT ![w] = "notify"]
       \/ /\ jobs' = jobs
          /\ wpc' = [wpc EXCEPT ![w] = "exc_finish"]
    /\ termSeen' = SeenAfter(jobs')
    /\ UNCHANGED <<events, attempts, ingestVars, queueVars, wmsg, wlive, watt, wres, wbundle, wdone, redelivered, outVars, aiCalls, ingestPubs, vpkg, vres, brokerBlocked>>

\* notify_job_completed(job.chat_id, preview_url, settings.preview_base_url); return True
WNotify(w) ==
    /\ wpc[w] = "notify"
    /\ notified' = [notified EXCEPT ![WJob(w)] = @ + 1]
    /\ notices' = notices \cup {Notice(WJob(w), "completed",
                                        CompletedText(PreviewUrl(wbundle[w]), preview_base_url))}
    /\ Return(w, TRUE)
    /\ UNCHANGED <<dbVars, ingestVars, queueVars, wmsg, wlive, watt, wres, wbundle, redelivered, bundles, histVars, vpkg, vres, brokerBlocked>>

\* except Exception: finish_job_attempt(attempt_id, FAIL, error_detail=str(e)) ...
WExcFinish(w) ==
    /\ wpc[w] = "exc_finish"
    /\ attempts' = FinishJobAttempt(watt[w], "fail")
    /\ wpc' = [wpc EXCEPT ![w] = "exc_update"]
    /\ UNCHANGED <<events, jobs, ingestVars, queueVars, wmsg, wlive, watt, wres, wbundle, wdone, redelivered, outVars, histVars, vpkg, vres, brokerBlocked>>

\* ... then QUEUED and return False below max_retries, else FAILED and return True
WExcUpdate(w) ==
    /\ wpc[w] = "exc_update"
    /\ IF WAttempt(w) < max_retries
       THEN /\ jobs' = UpdateJobStatus(WJob(w), "queued", 0, <<>>, "exception", {}, FALSE)
            /\ Return(w, FALSE)
       ELSE /\ jobs' = UpdateJobStatus(WJob(w), "failed", 0, <<>>, "exception", {}, FALSE)
            /\ Return(w, TRUE)
    /\ termSeen' = SeenAfter(jobs')
    /\ UNCHANGED <<events, attempts, ingestVars, queueVars, wmsg, wlive, watt, wres, wbundle, redelivered, outVars, aiCalls, ingestPubs, vpkg, vres, brokerBlocked>>

\* handle_message after process_job: schedule the retry when it returned False
NeedsRetry(done, attempt) == ~done /\ attempt < max_retries

\* publish_job_delayed(job_id, attempt + 1, delay) into the delay queue, then the ACK of
\* incoming.process; a publish that raises leaves handle_message raising: reject
WHandled(w) ==
    /\ wpc[w] = "handled"
    /\ IF NeedsRetry(wdone[w], WAttempt(w))
       THEN \/ /\ delayq' = BagAdd(delayq, <<<<WJob(w), WAttempt(w) + 1>>, DelayMs(RetryDelay(WAttempt(w)))>>)
               /\ dlq' = dlq
            \/ /\ delayq' = delayq
               /\ dlq' = Rejected(w)
       ELSE /\ delayq' = delayq
            /\ dlq' = dlq
    /\ Release(w)
    /\ UNCHANGED <<dbVars, ingestVars, mainq, redelivered, outVars, histVars, vpkg, vres, brokerBlocked>>

\* run_worker after shutdown_event is set: consumer_task.cancel() raises CancelledError
\* at the await the consume coroutine is suspended in; inside a handler it passes the
\* "except Exception" of process_job and leaves incoming.process, so the delivery is
\* rejected, or is still unacknowledged when the channel closes and the broker requeues it
Shutdown(w) ==
    /\ wpc[w] # "stopped"
    /\ redelivered < MaxRedeliver
    /\ redelivered' = redelivered + 1
    /\ \/ /\ dlq' = Rejected(w)
          /\ mainq' = mainq
       \/ /\ wlive[w]
          /\ mainq' = BagAdd(mainq, wmsg[w])
          /\ dlq' = dlq
    /\ wpc' = [wpc EXCEPT ![w] = "stopped"]
    /\ wmsg' = [wmsg EXCEPT ![w] = <<0, 0>>]
    /\ wlive' = [wlive EXCEPT ![w] = FALSE]
    /\ watt' = [watt EXCEPT ![w] = 0]
    /\ wres' = [wres EXCEPT ![w] = NoResult]
    /\ wbundle' = [wbundle EXCEPT ![w] = 0]
    /\ wdone' = [wdone EXCEPT ![w] = FALSE]
    /\ UNCHANGED <<dbVars, ingestVars, delayq, outVars, histVars, vpkg, vres, brokerBlocked>>

\* ------------------------------------------------------------- system
IngestStep(h) ==
    \/ \E secret \in Secrets, body \in Bodies : IngestReject(h, secret, body)
    \/ \E u \in UpdateIds, text \in Texts, chat_id \in Chats : IngestReceive(h, u, text, chat_id)
    \/ IngestInsert(h)
    \/ IngestDuplicate(h)
    \/ IngestCreateJob(h)
    \/ IngestCommit(h)
    \/ IngestPublish(h)
    \/ IngestMarkFailed(h)
    \/ IngestRespond(h)

WorkerStep(w) ==
    \/ WFetch(w)
    \/ WSetRunning(w)
    \/ WCreateAttempt(w)
    \/ \E o \in Outputs : WCallAI(w, o)
    \/ WRetryFinish(w)
    \/ WRetryUpdate(w)
    \/ WFailFinish(w)
    \/ WFailUpdate(w)
    \/ WCreateBundle(w)
    \/ WSuccessFinish(w)
    \/ WSuccessUpdate(w)
    \/ WNotify(w)
    \/ WExcFinish(w)
    \/ WExcUpdate(w)
    \/ WHandled(w)

QueueStep ==
    \/ \E w \in Workers, m \in Msgs : Deliver(w, m)
    \/ \E m \in Msgs, d \in {k[2] : k \in DelayKeys} : DelayExpire(m, d)

Fault ==
    \/ \E w \in Workers : Redeliver(w)
    \/ \E w \in Workers : Crash(w)

Next ==
    \/ \E h \in Handlers : IngestStep(h)
    \/ \E w \in Workers : WorkerStep(w)
    \/ QueueStep
    \/ Fault
    \/ \E w \in Workers : Shutdown(w)

Spec == Init /\ [][Next]_vars

\* the scheduling the runtime gives: every handler and every consumer that can take a
\* step eventually does, and the broker eventually delivers; requests, connection
\* drops and crashes may or may not happen
IngestProgress(h) ==
    \/ IngestInsert(h)
    \/ IngestDuplicate(h)
    \/ IngestCreateJob(h)
    \/ IngestCommit(h)
    \/ IngestPublish(h)
    \/ IngestMarkFailed(h)
    \/ IngestRespond(h)

FairSpec ==
    /\ Spec
    /\ \A h \in Handlers : WF_vars(IngestProgress(h))
    /\ \A w \in Workers : WF_vars(WorkerStep(w))
    /\ WF_vars(QueueStep)

\* ------------------------------------------------------- ingress and broker
\* the broker stops answering publishers, for longer than any deadline of the caller
BrokerBlock ==
    /\ ~brokerBlocked
    /\ brokerBlocked' = TRUE
    /\ UNCHANGED <<dbVars, ingestVars, queueVars, workerVars, outVars, histVars, validatorVars>>

\* the webhook handlers in front of a broker that may hold publishers back; every
\* handler that can take a step eventually does, the broker owes nothing
IngressNext ==
    \/ \E h \in Handlers : IngestStep(h)
    \/ BrokerBlock

IngressFairSpec ==
    /\ Init
    /\ [][IngressNext]_vars
    /\ \A h \in Handlers : WF_vars(IngestProgress(h))

\* ------------------------------------------------------- validator alone
\* TemplateValidator.validate called on an arbitrary package
ValidatorInit ==
    /\ InitSystem
    /\ vpkg \in ValidatorInputs
    /\ vres = {}

ValidateCall ==
    /\ vres = {}
    /\ vres' = {Validate(vpkg)}
    /\ UNCHANGED <<dbVars, ingestVars, queueVars, workerVars, outVars, histVars, vpkg,
                   brokerBlocked>>

ValidatorNext == ValidateCall

ValidatorSpec == ValidatorInit /\ [][ValidatorNext]_vars

\* ------------------------------------------------------------- properties
JobExists(j) == jobs[j].status # "none"

\* the job rows that reference a telegram_update row carrying update id u
JobsOfUpdate(u) ==
    {j \in JobIds : /\ JobExists(j)
                    /\ \E e \in events : e.id = jobs[j].telegram_update_id /\ e.update_id = u}

\* the attempt rows of (job j, attempt_no n)
AttemptRows(j, n) ==
    {i \in 1..Len(attempts) : attempts[i].job_id = j /\ attempts[i].attempt_no = n}

\* a worker is inside an episode of job j: past the RUNNING transition, before process_job returns
EpisodePcs == {"create_attempt", "call_ai", "retry_finish", "retry_update", "fail_finish",
               "fail_update", "create_bundle", "success_finish", "success_update", "notify",
               "exc_finish", "exc_update"}

InEpisode(w, j) == wpc[w] \in EpisodePcs /\ WJob(w) = j

\* C1: for every external update id, at most one job row references it, however the
\* deliveries of that update id are interleaved across handlers
C1_OneJobPerUpdate == \A u \in UpdateIds : Cardinality(JobsOfUpdate(u)) <= 1

\* a second delivery of an update id found its row already committed, with its job
C1_Witness ==
    \E h \in Handlers : ipc[h] = "duplicate" /\ Cardinality(JobsOfUpdate(iupd[h])) = 1

\* C2: every message in the main queue, in a delay queue or held by a worker names a
\* job whose row is committed
C2_MessagesNameCommittedJobs ==
    /\ \A m \in Msgs : mainq[m] > 0 => JobExists(m[1])
    /\ \A k \in DelayKeys : delayq[k] > 0 => JobExists(k[1][1])
    /\ \A w \in Workers : Busy(w) => JobExists(WJob(w))

\* a worker has dequeued a message that ingest published and is about to fetch the job
C2_Witness == \E w \in Workers : wpc[w] = "fetch" /\ WAttempt(w) = 1

\* C3: once a job row is COMPLETED or FAILED, no step changes any attribute of it
C3_TerminalFrozen ==
    [][\A j \in JobIds : jobs[j].status \in Terminal => jobs'[j] = jobs[j]]_vars

\* C4: a job enters a terminal status at most once in its history, and is never seen
\* COMPLETED at one time and FAILED at another
C4_OneTerminalTransition ==
    /\ [](\A j \in JobIds : Cardinality(termSeen[j]) <= 1)
    /\ [][\A j \in JobIds :
            (jobs[j].status \notin Terminal /\ jobs'[j].status \in Terminal) => termSeen[j] = {}]_vars

\* a message of a job that already reached a terminal status is being handled by a worker
C4_Witness ==
    \E w \in Workers : Busy(w) /\ termSeen[WJob(w)] # {}

\* C5: under fair scheduling every job of which a worker has taken a message, on the
\* first delivery or on a redelivery after a crash or a connection drop, eventually is
\* COMPLETED or FAILED
C5_EventuallyTerminal ==
    \A j \in JobIds :
        (\E w \in Workers : Busy(w) /\ WJob(w) = j) ~> (jobs[j].status \in Terminal)

\* C6: for every message (job_id, attempt_no), however often it is delivered, there is
\* at most one attempt row and at most one model invocation
C6_OneAttemptPerMessage ==
    \A m \in Msgs : Cardinality(AttemptRows(m[1], m[2])) <= 1 /\ aiCalls[m] <= 1

\* a second delivery of a message is about to insert an attempt row that already exists
C6_Witness ==
    \E w \in Workers : wpc[w] = "create_attempt" /\ AttemptExists(WJob(w), WAttempt(w))

\* C7: attempt N+1 of a job has a row only if attempt N has a row with its outcome set,
\* a job never has two rows with a null outcome, and two workers are never inside an
\* episode of the same job at once
C7_SequentialEpisodes ==
    \A j \in JobIds :
        /\ \A i \in 1..Len(attempts) :
              (attempts[i].job_id = j /\ attempts[i].attempt_no > 1) =>
                  \E p \in AttemptRows(j, attempts[i].attempt_no - 1) : attempts[p].outcome # "null"
        /\ Cardinality({i \in 1..Len(attempts) :
                           attempts[i].job_id = j /\ attempts[i].outcome = "null"}) <= 1
        /\ Cardinality({w \in Workers : InEpisode(w, j)}) <= 1

\* C8: when no worker is handling a message of a job and the job is not RUNNING, its
\* attempt numbers are exactly 1..attempt_count
C8_ContiguousAttempts ==
    \A j \in JobIds :
        (/\ JobExists(j)
         /\ jobs[j].status # "running"
         /\ \A w \in Workers : wpc[w] = "idle" \/ WJob(w) # j) =>
            {attempts[i].attempt_no : i \in {k \in 1..Len(attempts) : attempts[k].job_id = j}}
                = 1..jobs[j].attempt_count

\* C9: a webhook response that reports the queue error is produced only with the job FAILED
C9_PublishFailureMarksFailed ==
    \A h \in Handlers :
        (ipc[h] = "respond" /\ iresp[h].message = "Queue publish failed") =>
            jobs[iresp[h].job_id].status = "failed"

\* C10: ingest publishes at most one message per external update id
C10_OnePublishPerUpdate == \A u \in UpdateIds : ingestPubs[u] <= 1

\* a delivery finds the update id recorded after its message was published
C10_Witness ==
    \E h \in Handlers : ipc[h] = "duplicate" /\ ingestPubs[iupd[h]] = 1

\* the steps of a delivery through the duplicate branch: the insert that hits the
\* conflict, the lookup, and the return of the response
DuplicateStep(h) ==
    \/ ipc[h] = "insert" /\ ipc'[h] = "duplicate"
    \/ ipc[h] = "duplicate" /\ ipc'[h] = "respond"
    \/ ipc[h] = "respond" /\ iresp[h].message = "Already processing" /\ ipc'[h] = "idle"

\* C11: a delivery whose update id is already recorded answers "Already processing"
\* with the id of the one job of that update id, holds no uncommitted row, and none of
\* its steps changes a table, a queue or the count of published messages
C11_DuplicateIsReadOnly ==
    /\ [](\A h \in Handlers :
            (ipc[h] = "respond" /\ iresp[h].message \in {"Already processing", "Already received"}) =>
                /\ iresp[h].message = "Already processing"
                /\ JobsOfUpdate(iupd[h]) = {iresp[h].job_id}
                /\ iresp[h].job_id # ireq[h]
                /\ itxn[h] = "none")
    /\ [][\A h \in Handlers : DuplicateStep(h) =>
            /\ UNCHANGED <<dbVars, queueVars, ingestPubs, itxn>>]_vars

\* a second delivery of an update id is answered with the job of the first
C11_Witness ==
    \E h \in Handlers : ipc[h] = "respond" /\ iresp[h].message = "Already processing"

\* the attempt rows of job j
RowsOfJob(j) == {i \in 1..Len(attempts) : attempts[i].job_id = j}

\* the job's attempt numbered max_retries is sealed FAIL
LastAttemptFailed(j) == \E i \in AttemptRows(j, max_retries) : attempts[i].outcome = "fail"

\* C12: a job never has more than max_retries attempt rows and no message carries an
\* attempt number beyond max_retries; a failure of the attempt numbered max_retries
\* never takes the requeue branch, the status written for it is FAILED with
\* process_job returning True, and once that attempt is sealed FAIL nothing more is
\* published for the job
C12_AttemptsBounded ==
    /\ [](\A j \in JobIds : Cardinality(RowsOfJob(j)) <= max_retries)
    /\ [](\A m \in Msgs : m[2] > max_retries =>
            /\ mainq[m] = 0 /\ dlq[m] = 0
            /\ \A k \in DelayKeys : k[1] = m => delayq[k] = 0)
    /\ [](\A w \in Workers : wpc[w] \in {"retry_finish", "retry_update"} => WAttempt(w) < max_retries)
    /\ [][\A w \in Workers :
            (/\ wpc[w] \in {"fail_update", "exc_update"}
             /\ WAttempt(w) = max_retries
             /\ wpc'[w] = "handled") =>
                jobs'[WJob(w)].status = "failed" /\ wdone'[w]]_vars
    /\ [][\A j \in JobIds : LastAttemptFailed(j) =>
            /\ \A k \in DelayKeys : k[1][1] = j => delayq'[k] <= delayq[k]
            /\ ingestPubs' = ingestPubs]_vars

\* the attempt numbered max_retries failed, the job is FAILED and handle_message is
\* about to decide on a retry
C12_Witness ==
    \E w \in Workers :
        /\ wpc[w] = "handled" /\ WAttempt(w) = max_retries /\ wdone[w]
        /\ LastAttemptFailed(WJob(w))
        /\ jobs[WJob(w)].status = "failed"
        /\ Cardinality(RowsOfJob(WJob(w))) = max_retries

\* the positions of process_job from the sanitizer to the completion notice
RenderPcs == {"create_bundle", "success_finish", "success_update", "notify"}

\* C13: only a GenerationResult whose template the validator finds valid reaches the
\* sanitizer, the renderer and bundle storage; a bundle directory appears, and a job
\* turns COMPLETED, only in a step of a worker that holds such a result
C13_OnlyValidRendered ==
    /\ [](\A w \in Workers : (wpc[w] \in RenderPcs \/ wbundle[w] # 0) =>
            /\ wres[w].success
            /\ wres[w].template \in Templates
            /\ Validate(Package(wres[w].template)).valid
            /\ wres[w].validation = {Validate(Package(wres[w].template))})
    /\ [][\A b \in bundles' \ bundles :
            \E w \in Workers : /\ wpc[w] = "create_bundle" /\ wbundle'[w] = b
                               /\ Validate(Package(wres[w].template)).valid]_vars
    /\ [][\A j \in JobIds : (jobs[j].status # "completed" /\ jobs'[j].status = "completed") =>
            \E w \in Workers : /\ wpc[w] = "success_update" /\ WJob(w) = j
                               /\ Validate(Package(wres[w].template)).valid]_vars

\* the adapter returned a template with a blocking validation error and the worker has
\* sealed the attempt as failed
C13_Witness ==
    \E w \in Workers :
        /\ wpc[w] \in {"retry_update", "fail_update"}
        /\ wres[w].template = "tpl_unsafe"
        /\ attempts[watt[w]].outcome = "fail"
        /\ bundles = {}

\* C14: a job row has a bundle_id exactly when its status is COMPLETED
C14_BundleIdIffCompleted ==
    \A j \in JobIds : JobExists(j) => (jobs[j].bundle_id # 0 <=> jobs[j].status = "completed")

\* C15: the bundle directory of every COMPLETED job exists and holds index.html
C15_CompletedHasBundleDir ==
    \A j \in JobIds : jobs[j].status = "completed" => jobs[j].bundle_id \in bundles

\* a job is COMPLETED with the bundle its worker wrote
C15_Witness ==
    \E j \in JobIds : jobs[j].status = "completed" /\ jobs[j].bundle_id \in bundles

\* C16: every step that changes the status of a job row, or increments its
\* attempt_count, takes the status along one of QUEUED->RUNNING, RUNNING->COMPLETED,
\* RUNNING->QUEUED, RUNNING->FAILED or QUEUED->FAILED
C16_TransitionsAllowed ==
    [][\A j \in JobIds :
        (/\ JobExists(j)
         /\ \/ jobs'[j].status # jobs[j].status
            \/ jobs'[j].attempt_count # jobs[j].attempt_count) =>
            <<jobs[j].status, jobs'[j].status>> \in
                {<<"queued", "running">>, <<"running", "completed">>, <<"running", "queued">>,
                 <<"running", "failed">>, <<"queued", "failed">>}]_vars

\* C17: no message a worker handled is ever rejected: every exception raised while a
\* message is handled ends in the except branch of process_job and the message is
\* acknowledged, so the dead-letter queue stays empty
C17_NoWorkerReject == \A m \in Msgs : dlq[m] = 0

\* C18: a worker that has stopped on the shutdown signal takes no message any more, and
\* it stops only with the attempt of its in-flight message finished: the step that
\* stops it never leaves the job of that message RUNNING
C18_ShutdownFinishesAttempt ==
    [][\A w \in Workers :
        /\ wpc[w] = "stopped" => wpc'[w] = "stopped"
        /\ (Busy(w) /\ wpc'[w] = "stopped") => jobs'[WJob(w)].status # "running"]_vars

\* handle_message ends for worker w: it returns, or an exception leaves it
HandlerEnds(w) ==
    /\ wpc[w] \in {"create_attempt", "handled"}
    /\ wpc'[w] = "idle"
    /\ redelivered' = redelivered

\* the exceptions that leave handle_message: the IntegrityError of create_job_attempt
\* and a publish_job_delayed that raises
HandlerRaises(w) ==
    \/ wpc[w] = "create_attempt"
    \/ wpc[w] = "handled" /\ NeedsRetry(wdone[w], WAttempt(w)) /\ delayq' = delayq

\* C19: when the handler of a delivery on a live channel ends, the message never goes
\* back to the main queue: it is acknowledged (gone from every queue) if the handler
\* returned, and added to the dead-letter queue if the handler raised; no message
\* ever leaves the dead-letter queue
C19_AckOrDeadLetter ==
    /\ [][\A w \in Workers : (HandlerEnds(w) /\ wlive[w]) =>
            /\ mainq' = mainq
            /\ dlq' = IF HandlerRaises(w) THEN BagAdd(dlq, wmsg[w]) ELSE dlq]_vars
    /\ [][\A m \in Msgs : dlq'[m] >= dlq[m]]_vars

\* a rejected message lies in the dead-letter queue while every consumer is idle and
\* the main queue is empty
C19_Witness ==
    /\ \E m \in Msgs : dlq[m] > 0
    /\ \A m \in Msgs : mainq[m] = 0
    /\ \A w \in Workers : wpc[w] = "idle"

\* the steps of a request the controller rejects: its arrival and the return of the reply
RejectStep(h) ==
    \/ ipc[h] = "idle" /\ ipc'[h] = "respond" /\ iresp'[h].status \in {400, 401}
    \/ ipc[h] = "respond" /\ iresp[h].status \in {400, 401} /\ ipc'[h] = "idle"

\* C20: a request with a wrong secret is answered 401 whatever its body, a body that
\* is not JSON or not an update is answered 400; a request answered 400 or 401 has no
\* event row, no job row and no uncommitted row, names no job, and none of its steps
\* changes a table, a queue or the count of published messages
C20_RejectedHasNoEffect ==
    /\ [](/\ \A body \in Bodies : Controller("wrong", body).status = 401
          /\ Controller(telegram_secret_token, "not_json").status = 400
          /\ Controller(telegram_secret_token, "not_update").status = 400)
    /\ [](\A h \in Handlers : (ipc[h] = "respond" /\ iresp[h].status \in {400, 401}) =>
            /\ itxn[h] = "none"
            /\ iresp[h].job_id = 0 /\ ~iresp[h].notify_started
            /\ \A e \in events : e.id # ireq[h]
            /\ ~JobExists(ireq[h]))
    /\ [][\A h \in Handlers : RejectStep(h) =>
            UNCHANGED <<dbVars, queueVars, ingestPubs, itxn>>]_vars

\* a request with a wrong secret was answered 401 after another request created a job
C20_Witness ==
    \E h \in Handlers :
        /\ ipc[h] = "respond" /\ iresp[h].status = 401
        /\ \E j \in JobIds : JobExists(j)

\* the delay in seconds the retry after failed attempt n has to wait: base for the
\* first, twice the previous one afterwards, never more than the cap
DoubledUpToCap(n) ==
    /\ RetryDelay(1) = retry_base_delay
    /\ n > 1 => RetryDelay(n) = IF 2 * RetryDelay(n - 1) < retry_max_delay
                                 THEN 2 * RetryDelay(n - 1) ELSE retry_max_delay
    /\ RetryDelay(n) <= retry_max_delay

\* C21: for every attempt number the settings allow, the retry delay is
\* min(retry_base_delay * 2^(n-1), retry_max_delay): base first, doubling, capped; and
\* every message (job, n+1) waiting in a delay queue waits in the queue of that delay
C21_BackoffDelay ==
    /\ \A n \in 1..max_retries_limit : DoubledUpToCap(n)
    /\ \E n \in 1..max_retries_limit : RetryDelay(n) = retry_max_delay
    /\ \A k \in DelayKeys : delayq[k] > 0 =>
          /\ k[1][2] > 1
          /\ k[2] = 1000 * RetryDelay(k[1][2] - 1)
          /\ DoubledUpToCap(k[1][2] - 1)

\* the retry of a failed first attempt waits in the delay queue of retry_base_delay
C21_Witness ==
    \E j \in JobIds : delayq[<<<<j, 2>>, 1000 * retry_base_delay>>] > 0

\* C22: validate(template).valid is true exactly when none of the seven error layers
\* (endpoint format, cross-reference, string security, reactive directive, style policy,
\* theme, route) reported an error; the page-type and completeness warnings never make
\* a template invalid, and an empty sections array yields a warning and valid = true
NoErrorLayerReported(r) ==
    /\ r.endpoint_errors = {}
    /\ r.crossref_errors = {}
    /\ r.security_flags = {}
    /\ r.alpine_errors = {}
    /\ r.tailwind_errors = {}
    /\ r.theme_errors = {}
    /\ r.route_errors = {}

C22_ValidIffNoErrorLayer ==
    \A r \in vres :
        /\ r.valid <=> NoErrorLayerReported(r)
        /\ r.endpoint_errors = validate_endpoints(vpkg)
        /\ r.crossref_errors = validate_crossrefs(vpkg)
        /\ r.security_flags = find_unsafe_strings(vpkg)
        /\ r.alpine_errors = validate_alpine(vpkg)
        /\ r.tailwind_errors = validate_tailwind(vpkg)
        /\ r.theme_errors = validate_theme(vpkg)
        /\ r.route_errors = validate_route(vpkg)
        /\ (vpkg.sections = <<>> /\ NoErrorLayerReported(r))
              => (r.completeness_warnings # {} /\ r.valid)

\* a package that only has warnings was validated
C22_Witness ==
    \E r \in vres : /\ r.valid
                     /\ r.page_type_warnings # {}
                     /\ r.completeness_warnings # {}
                     /\ vpkg.sections = <<>>

\* C23: the webhook responds within the ingress deadline whatever the downstream state:
\* a handler waiting on the queue publish leaves that wait (published, or failed and
\* compensated) and answers, because the publish is bounded by a timeout
C23_PublishWaitBounded ==
    \A h \in Handlers : (ipc[h] = "publish") ~> (ipc[h] = "idle")

\* C24: a worker that handles a message of a job whose status is RUNNING drops the
\* message without starting an episode: it does not go on to the RUNNING update, so
\* attempt_count is not incremented, no attempt row is created and the model is not
\* invoked; and a job row is set to RUNNING only when it was QUEUED
C24_RunningMessageDropped ==
    [][\A w \in Workers :
          /\ (wpc[w] = "fetch" /\ jobs[WJob(w)].status = "running")
                => wpc'[w] # "set_running"
          /\ (wpc[w] = "set_running" /\ wpc'[w] = "create_attempt")
                => jobs[WJob(w)].status = "queued"]_vars

\* the positions at which process_job writes the job row at the end of an episode
UpdatePcs == {"retry_update", "fail_update", "success_update", "exc_update"}

\* C25: in every worker episode the attempt row is sealed before the job row's
\* transition out of RUNNING commits: whenever a worker writes QUEUED, COMPLETED or
\* FAILED on the job row, the attempt row of its episode already has an outcome, and
\* no worker that has made that write holds an attempt with a null outcome
C25_SealedBeforeTransition ==
    /\ [][\A w \in Workers :
            (wpc[w] \in UpdatePcs /\ wpc'[w] # wpc[w] /\ jobs'[WJob(w)] # jobs[WJob(w)])
              => /\ jobs'[WJob(w)].status \in {"queued", "completed", "failed"}
                 /\ attempts[watt[w]].outcome # "null"
                 /\ attempts'[watt[w]].outcome # "null"]_vars
    /\ [](\A w \in Workers :
            wpc[w] \in {"handled", "notify"} /\ watt[w] # 0
              => attempts[watt[w]].outcome # "null")

\* a worker has set its job back to QUEUED, the attempt of the episode sealed FAIL
C25_Witness ==
    \E w \in Workers : /\ wpc[w] = "handled"
                        /\ ~wdone[w]
                        /\ jobs[WJob(w)].status = "queued"
                        /\ attempts[watt[w]].outcome = "fail"

\* the delayed message of the retry that follows attempt n of job j
RetryMessage(j, n) == <<<<j, n + 1>>, DelayMs(RetryDelay(n))>>

\* C26: when attempt n < max_retries of a job ends in a retryable failure, the worker
\* seals the attempt FAIL, sets the job back to QUEUED and then publishes exactly one
\* delayed message (job_id, n + 1): process_job returns False only with the attempt
\* sealed FAIL, the handler then leaves with exactly that one message added to the
\* delay queues, and a delayed message is published by no other step, so never before
\* the QUEUED status is committed
C26_RetryPublishedAfterRequeue ==
    /\ [](\A w \in Workers :
            (wpc[w] = "handled" /\ NeedsRetry(wdone[w], WAttempt(w)))
              => attempts[watt[w]].outcome = "fail")
    /\ [][\A w \in Workers :
            (wpc[w] = "handled" /\ NeedsRetry(wdone[w], WAttempt(w)) /\ wpc'[w] # "handled")
              => delayq' = BagAdd(delayq, RetryMessage(WJob(w), WAttempt(w)))]_vars
    /\ [][\A k \in DelayKeys :
            delayq'[k] > delayq[k]
              => \E w \in Workers : /\ wpc[w] = "handled"
                                     /\ NeedsRetry(wdone[w], WAttempt(w))
                                     /\ k = RetryMessage(WJob(w), WAttempt(w))
                                     /\ delayq'[k] = delayq[k] + 1]_vars

\* the model call of worker w's episode has returned a non-retryable failure
PermanentFailure(w) ==
    /\ watt[w] # 0
    /\ wpc[w] # "call_ai"
    /\ ~wres[w].success
    /\ ~wres[w].retryable

NothingWritten ==
    UNCHANGED <<events, jobs, attempts, bundles, aiCalls, notified, mainq, delayq, dlq>>

\* worker w took a step of its handler (no connection drop, crash or shutdown)
HandlerStep(w) == wpc'[w] # wpc[w] /\ redelivered' = redelivered

\* C28: handling a message whose job is absent or already COMPLETED or FAILED
\* acknowledges the message and changes nothing: process_job returns True at once,
\* no job or attempt row is written, no bundle is created, the model is not invoked,
\* no message or notification is sent, and the message is neither requeued nor
\* dead-lettered
C28_FinishedJobMessageDropped ==
    [][\A w \in Workers :
          /\ (wpc[w] = "fetch" /\ HandlerStep(w)
                 /\ (jobs[WJob(w)].status = "none" \/ jobs[WJob(w)].status \in Terminal))
                => wpc'[w] = "handled" /\ wdone'[w] /\ watt'[w] = 0 /\ NothingWritten
          /\ (wpc[w] = "handled" /\ wdone[w] /\ watt[w] = 0 /\ HandlerStep(w))
                => wpc'[w] = "idle" /\ NothingWritten]_vars

\* a message of a finished job has been handled and is about to be acknowledged
C28_Witness ==
    \E w \in Workers : /\ wpc[w] = "handled"
                        /\ wdone[w]
                        /\ watt[w] = 0
                        /\ jobs[WJob(w)].status \in Terminal

\* the model output of worker w's episode failed validation
ValidationFailed(w) ==
    /\ watt[w] # 0
    /\ wpc[w] # "call_ai"
    /\ ~wres[w].success
    /\ wres[w].validation # {}

EarlyDecisions == {"Ignored", "Start", "Help", "Invalid command", "Empty prompt"}

NoticesOf(j) == {n \in notices : n.job = j}

\* C31: every job that reaches FAILED has a failure notification sent to its chat, and
\* no job ends in a terminal state without a terminal notification: when the handler
\* of the episode that wrote COMPLETED or FAILED on a job returns, a notice of that
\* outcome has been sent to the chat of the job
C31_TerminalOutcomeNotified ==
    [][\A w \in Workers :
          (/\ wpc[w] = "handled" /\ wdone[w] /\ watt[w] # 0
           /\ HandlerStep(w)
           /\ jobs[WJob(w)].status \in Terminal)
            => \E n \in NoticesOf(WJob(w)) :
                  n.kind = IF jobs[WJob(w)].status = "completed" THEN "completed" ELSE "failed"]_vars

\* the completion notices sent for job j
CompletedNotices(j) == {n \in NoticesOf(j) : n.kind = "completed"}

\* C32: a completion notification of a job is sent only after the COMPLETED status of
\* the job, with bundle_id and preview_url, is committed; at most one is sent per job;
\* and its link is preview_base_url followed by /p/<bundle_id>/index.html for the
\* bundle id stored on the job row
C32_CompletionNotice ==
    /\ [][\A j \in JobIds :
            (notified'[j] > notified[j] \/ CompletedNotices(j)' # CompletedNotices(j))
              => /\ "completed" \in termSeen[j]
                 /\ jobs[j].bundle_id # 0
                 /\ jobs[j].preview_url = <<"/p/", ToString(jobs[j].bundle_id), "/index.html">>
                 /\ jobs[j].bundle_id \in bundles]_vars
    /\ [](\A j \in JobIds : notified[j] <= 1 /\ Cardinality(CompletedNotices(j)) = notified[j])
    /\ [](\A j \in JobIds : \A n \in CompletedNotices(j) :
            n.text = <<"Your page is ready! Preview: ", preview_base_url,
                       "/p/", ToString(jobs[j].bundle_id), "/index.html">>)

\* the completion notice of a COMPLETED job has been sent
C32_Witness ==
    \E j \in JobIds : /\ jobs[j].status = "completed"
                        /\ notified[j] = 1
                        /\ CompletedNotices(j) # {}

\* the ids that occur more than once in a list of dataSources or actions
DuplicateIds(list) ==
    {list[i].id : i \in {k \in DOMAIN list : \E o \in DOMAIN list : o # k /\ list[o].id = list[k].id}}

\* C33: a template in which two dataSources share an id, or two actions share an id,
\* is rejected: validate returns valid = false, with an error reported for every
\* duplicated id
C33_DuplicateIdsRejected ==
    \A r \in vres :
        \A d \in DuplicateIds(vpkg.dataSources) \cup DuplicateIds(vpkg.actions) :
            /\ ~r.valid
            /\ \E e \in all_errors(r) : e[1] \in {"dataSources", "actions"}

\* the route starts with "/", consists of letters, digits, _ - / { } only, and has no ".."
RouteWellFormed(route) ==
    /\ route[1] = "/"
    /\ \A i \in DOMAIN route : route[i] \in {"/", "x", "_", "-", "{", "}"}
    /\ ~\E i \in DOMAIN route : i + 1 \in DOMAIN route /\ route[i] = "." /\ route[i + 1] = "."

\* C35: a metadata.route is rejected (valid = false, with a route error) whenever it
\* does not start with "/", contains "..", or contains a character outside letters,
\* digits, _ - / { and }; only a route of a leading "/" followed by those characters
\* and free of ".." gets no route error
C35_RouteRejected ==
    \A r \in vres :
        vpkg.route # <<>> =>
            /\ ~RouteWellFormed(vpkg.route) => (~r.valid /\ r.route_errors # {})
            /\ RouteWellFormed(vpkg.route) => r.route_errors = {}

\* the ids a list of dataSources or actions declares
DeclaredIds(list) == {list[i].id : i \in DOMAIN list}

\* the references of the package that name no declared id: a section's dataSource, a
\* section's actionRef, a button's actionRef (j: the button, 0 for the section itself)
DanglingRefs(pkg) ==
    {<<"sections.dataSource", i, 0>> : i \in {k \in DOMAIN pkg.sections :
        pkg.sections[k].dataSource # "" /\ pkg.sections[k].dataSource \notin DeclaredIds(pkg.dataSources)}}
    \cup {<<"sections.actionRef", i, 0>> : i \in {k \in DOMAIN pkg.sections :
        pkg.sections[k].actionRef # "" /\ pkg.sections[k].actionRef \notin DeclaredIds(pkg.actions)}}
    \cup {<<"sections.buttons.actionRef", x[1], x[2]>> :
            x \in {y \in (DOMAIN pkg.sections) \X (1..MaxButtons) :
                     /\ y[2] \in DOMAIN pkg.sections[y[1]].buttons
                     /\ pkg.sections[y[1]].buttons[y[2]].actionRef # ""
                     /\ pkg.sections[y[1]].buttons[y[2]].actionRef \notin DeclaredIds(pkg.actions)}}

\* C34: for every section, a non-empty dataSource that is not the id of a declared
\* dataSource, and a non-empty actionRef of the section or of one of its buttons that is
\* not the id of a declared action, each make the template invalid, with a
\* cross-reference error for that reference; a template whose references all resolve
\* gets no cross-reference error
C34_DanglingRefsRejected ==
    \A r \in vres :
        /\ \A d \in DanglingRefs(vpkg) :
              /\ ~r.valid
              /\ \E e \in r.crossref_errors : <<e[1], e[2], e[3]>> = d
        /\ DanglingRefs(vpkg) = {} => r.crossref_errors = {}

\* a package whose only dangling reference is the actionRef of a button was rejected
C34_Witness ==
    \E r \in vres :
        /\ DanglingRefs(vpkg) = {<<"sections.buttons.actionRef", 1, 1>>}
        /\ vpkg.sections[1].dataSource = "ds1"
        /\ vpkg.actions # <<>>
        /\ ~r.valid
        /\ all_errors(r) = r.crossref_errors

\* the committed job rows that reference the telegram_update row e
JobsOfEvent(e) == {j \in JobIds : JobExists(j) /\ jobs[j].telegram_update_id = e.id}

\* C36: in every committed state the event rows and the job rows created by ingest
\* correspond one to one (every event row has exactly one job row, every job row its
\* event row), so a duplicate delivery always finds a job and the reply "Already
\* received", without a job id, is never produced
C36_EventsMatchJobs ==
    /\ \A e \in events : Cardinality(JobsOfEvent(e)) = 1
    /\ \A j \in JobIds : JobExists(j) => \E e \in events : e.id = jobs[j].telegram_update_id
    /\ \A h \in Handlers :
          /\ ipc[h] = "duplicate" => FindJobByUpdateId(iupd[h]) # 0
          /\ iresp[h].message # "Already received"

\* a duplicate delivery is about to look the job up, one event row and one job row
\* being committed
C36_Witness ==
    \E h \in Handlers :
        /\ ipc[h] = "duplicate"
        /\ Cardinality(events) = 1
        /\ Cardinality({j \in JobIds : JobExists(j)}) = 1
        /\ FindJobByUpdateId(iupd[h]) # 0

\* a message of job j is in the main queue, in a delay queue or held by a worker
MessagePending(j) ==
    \/ \E m \in Msgs : m[1] = j /\ mainq[m] > 0
    \/ \E k \in DelayKeys : k[1][1] = j /\ delayq[k] > 0
    \/ \E w \in Workers : Busy(w) /\ WJob(w) = j

\* C37: whenever a worker has set a job back to QUEUED for retry and has finished
\* handling the message, a message of that job is in a delay queue, in the main queue
\* or in flight: the handler of an episode that ended in a requeue never leaves the
\* job QUEUED without a pending message
C37_QueuedHasPendingMessage ==
    [][\A w \in Workers :
          (/\ wpc[w] = "handled" /\ ~wdone[w] /\ watt[w] # 0
           /\ HandlerStep(w)
           /\ jobs'[WJob(w)].status = "queued")
            => MessagePending(WJob(w))']_vars

\* C38: once the outcome of an attempt row is SUCCESS or FAIL it never changes; an
\* attempt sealed SUCCESS is not rewritten to FAIL by the exception path
C38_OutcomeImmutable ==
    [][\A i \in 1..Len(attempts) :
          attempts[i].outcome # "null" => attempts'[i].outcome = attempts[i].outcome]_vars

\* the jobs whose row carries bundle id b
JobsOfBundle(b) == {j \in JobIds : JobExists(j) /\ jobs[j].bundle_id = b}

\* C39: whenever no worker is in the middle of an episode, every bundle directory is
\* the bundle of exactly one COMPLETED job; an episode that ends in a requeue or in
\* FAILED leaves no bundle directory behind; and no two jobs share a bundle id
C39_BundlesMatchCompletedJobs ==
    /\ []((\A w \in Workers : wpc[w] \notin EpisodePcs) =>
            \A b \in bundles :
                /\ Cardinality(JobsOfBundle(b)) = 1
                /\ \A j \in JobsOfBundle(b) : jobs[j].status = "completed")
    /\ [][\A w \in Workers :
            (/\ wpc[w] \in {"retry_update", "fail_update", "exc_update"}
             /\ HandlerStep(w)
             /\ wbundle[w] # 0)
              => wbundle[w] \notin bundles']_vars
    /\ [](\A b \in bundles : Cardinality(JobsOfBundle(b)) <= 1)

\* C40: in every reachable state the attempt_count of a job is at least the number of
\* its attempt rows and at least the largest attempt_no among them, and no step
\* decreases attempt_count
C40_AttemptCountCoversRows ==
    /\ [](\A j \in JobIds : JobExists(j) =>
            /\ jobs[j].attempt_count >= Cardinality(RowsOfJob(j))
            /\ \A i \in RowsOfJob(j) : jobs[j].attempt_count >= attempts[i].attempt_no)
    /\ [][\A j \in JobIds : jobs'[j].attempt_count >= jobs[j].attempt_count]_vars

\* a job has two attempt rows, and a redelivered message has made attempt_count larger
\* than both the number of rows and the largest attempt number
C40_Witness ==
    \E j \in JobIds :
        /\ Cardinality(RowsOfJob(j)) = 2
        /\ \E i \in RowsOfJob(j) : attempts[i].attempt_no = 2
        /\ jobs[j].attempt_count > 2
====
